---- MODULE Spec2Model ----
(***************************************************************************)
(* puppeteer-page-pool: the PagePool orchestrator (launch / process /      *)
(* destroy), its three pool-factory operations (create / destroy /         *)
(* validate) and the resource pool it drives.                              *)
(*                                                                         *)
(* JavaScript runs the orchestrator on one thread: an action of this       *)
(* module is the code that runs between two suspension points (awaits).    *)
(* The pool itself is the generic-pool dependency; its source is not part  *)
(* of the repository's files, so the pool operations (acquire, release,    *)
(* drain, clear, dispensing) follow section 4.2 of the specification.      *)
(***************************************************************************)
EXTENDS Integers, Sequences, FiniteSets, TLC

\* ------------------------------------------------------------------ bounds
NumCalls == 3       \* process calls issued
PoolMax == 2        \* poolOptions.max
MaxPages == 3       \* page identities the browser can mint
MaxLaunch == 2      \* launch calls issued
MaxDestroy == 2     \* destroy calls issued
\* To keep the state space finite and small, a run is either busy (up to NumCalls
\* process calls around at most BusyLife launch and BusyLife destroy calls) or it
\* churns (up to MaxLaunch launches and MaxDestroy destroys around at most
\* ChurnCalls process calls).
BusyLife == 1
ChurnCalls == 2

\* ------------------------------------------------------- JavaScript values
Null == 0
Undefined == -1
Truthy(x) == x > 0

Calls == 1..NumCalls
Pages == 1..MaxPages
Launches == 1..MaxLaunch
Destroys == 1..MaxDestroy
\* the pool and the browser made by launch call l are both named l
PoolIds == Launches
BrowserIds == Launches

Min(a, b) == IF a < b THEN a ELSE b

\* the n members of S with the smallest numbers
FirstK(S, n) == {p \in S : Cardinality({q \in S : q < p}) < n}

VARIABLES
    build,      \* which revision of index.js runs: "index" or "part_000"
    config,     \* the hooks the options object carries, and whether poolOptions
                \* sets an acquire timeout
    browser,    \* this.browser
    options,    \* this.options: Null after destroy, 1 while it is the options object
    pool,       \* this.pool
    browsers,   \* every browser puppeteer.launch made: "none", "open", "closed"
    pools,      \* every pool createPool made
    pages,      \* every page: its pool state, its pool, whether it is open
    calls,      \* the process calls
    launches,   \* the launch calls
    destroys,   \* the destroy calls
    frun        \* a factory operation called on its own: its arguments and result

vars == <<build, config, browser, options, pool, browsers, pools, pages,
          calls, launches, destroys, frun>>

orch == <<browser, options, pool>>

\* ------------------------------------------------------------ initial state
NoPage == [st |-> "absent", pool |-> Null, via |-> Null, open |-> FALSE]
NoPool == [made |-> FALSE, draining |-> FALSE, waitq |-> <<>>, listeners |-> 0]
NewCall == [pc |-> "new", handler |-> "none", pool |-> Null, page |-> Null,
            had |-> Null, failed |-> FALSE, diags |-> <<>>, got |-> <<>>]
NewLaunch == [pc |-> "new", outcome |-> "pending", diags |-> <<>>, madePool |-> FALSE]
NewDestroy == [pc |-> "new", ops |-> <<>>, diags |-> <<>>, dpool |-> Null,
               cpool |-> Null, closed |-> Null, returned |-> "pending"]

NoRun == [op |-> "none", present |-> FALSE, wasOpen |-> FALSE, minted |-> FALSE,
          hook |-> "none", raised |-> FALSE, page |-> FALSE, open |-> FALSE,
          response |-> "none", events |-> <<>>]

\* constructor: browser = null, options = the options object, pool = null
Init ==
    /\ build \in {"index", "part_000"}
    /\ \E h \in BOOLEAN : config = [onPageCreated |-> h, onBeforePageDestroy |-> h,
                   onValidate |-> h, acquireTimeout |-> FALSE]
    /\ browser = Null
    /\ options = 1
    /\ pool = Null
    /\ browsers = [b \in BrowserIds |-> "none"]
    /\ pools = [k \in PoolIds |-> NoPool]
    /\ pages = [p \in Pages |-> NoPage]
    /\ calls = [c \in Calls |-> NewCall]
    /\ launches = [l \in Launches |-> NewLaunch]
    /\ destroys = [d \in Destroys |-> NewDestroy]
    /\ frun = NoRun

\* the bounds on the mix of calls in one run
Busy == \E c \in Calls : c > ChurnCalls /\ calls[c].pc # "new"
Churn == \/ \E l \in Launches : l > BusyLife /\ launches[l].pc # "new"
         \/ \E d \in Destroys : d > BusyLife /\ destroys[d].pc # "new"

\* ------------------------------------------------------------------- pool
\* (generic-pool; modelled from section 4.2 of the specification)
PagesOf(pg, k, sts) == {p \in Pages : pg[p].pool = k /\ pg[p].st \in sts}
InPrep(pg, k) == PagesOf(pg, k, {"creating", "validating"})
\* faulty variant of IdleOf: pages that are out on loan count as idle
IdleOfAny(pg, k) == PagesOf(pg, k, {"idle", "borrowed"})
IdleOf(pg, k) == PagesOf(pg, k, {"idle"})
LiveOf(pg, k) == PagesOf(pg, k, {"creating", "idle", "validating", "borrowed"})
Absent(pg) == {p \in Pages : pg[p].st = "absent"}

\* factory create, up to its first await: it reads this.options and calls
\* this.browser.newPage(); a null options or a missing browser is a TypeError,
\* recorded as via = Null
CreateVia == IF options # Null /\ Truthy(browser) THEN browser ELSE Null

\* faulty variant of Dispense: pages are created without regard to the maximum
DispenseNoMax(pg, k, w) ==
    LET need == w - Cardinality(InPrep(pg, k))
        reuse == FirstK(IdleOf(pg, k), need)
        fresh == FirstK(Absent(pg), need - Cardinality(reuse))
    IN [p \in Pages |->
          IF p \in reuse THEN [pg[p] EXCEPT !.st = "validating"]
          ELSE IF p \in fresh
               THEN [st |-> "creating", pool |-> k, via |-> CreateVia, open |-> FALSE]
               ELSE pg[p]]

\* faulty variant of Dispense: a page is created although an idle page could be
\* reused
DispenseFreshFirst(pg, k, w) ==
    LET need == w - Cardinality(InPrep(pg, k))
        room == PoolMax - Cardinality(LiveOf(pg, k))
        fresh == FirstK(Absent(pg), Min(need, room))
        reuse == FirstK(IdleOf(pg, k), need - Cardinality(fresh))
    IN [p \in Pages |->
          IF p \in reuse THEN [pg[p] EXCEPT !.st = "validating"]
          ELSE IF p \in fresh
               THEN [st |-> "creating", pool |-> k, via |-> CreateVia, open |-> FALSE]
               ELSE pg[p]]

\* The pool's dispensing step for pool k with w waiting borrow requests:
\* idle pages are taken for validation first, then pages are created while the
\* live count is below the maximum.
Dispense(pg, k, w) ==
    LET need == w - Cardinality(InPrep(pg, k))
        reuse == FirstK(IdleOf(pg, k), need)
        need2 == need - Cardinality(reuse)
        room == PoolMax - Cardinality(LiveOf(pg, k))
        fresh == FirstK(Absent(pg), Min(need2, room))
    IN [p \in Pages |->
          IF p \in reuse THEN [pg[p] EXCEPT !.st = "validating"]
          ELSE IF p \in fresh
               THEN [st |-> "creating", pool |-> k, via |-> CreateVia, open |-> FALSE]
               ELSE pg[p]]

\* the arguments of process call c after the handler: the calls of a run differ
\* in how many they pass, call c passes c - 1 of them
ExtraArgs(c) == [i \in 1..(c - 1) |-> [k |-> "arg", v |-> i]]

\* faulty variant of HandlerArgs: the pool handle is passed before the caller's
\* arguments
HandlerArgsPoolSecond(c, p) ==
    <<[k |-> "page", v |-> p], [k |-> "pool", v |-> pool]>> \o ExtraArgs(c)

\* the callback process gives to pool.use, run with page p:
\* handler(page, ...args, this.pool), this.pool being read when it runs
HandlerArgs(c, p) ==
    <<[k |-> "page", v |-> p]>> \o ExtraArgs(c) \o <<[k |-> "pool", v |-> pool]>>

\* a ready page p is handed out: the first waiting process call gets it and its
\* handler is invoked with it; with nobody waiting the page goes idle
LendPages(pg, p) ==
    [pg EXCEPT ![p].st = IF pools[pg[p].pool].waitq # <<>> THEN "borrowed" ELSE "idle"]
LendPools(p) ==
    LET k == pages[p].pool
    IN IF pools[k].waitq # <<>> THEN [pools EXCEPT ![k].waitq = Tail(@)] ELSE pools
\* faulty variant of LendCalls: the newest request is served first
LendCallsNewest(p) ==
    LET k == pages[p].pool
        q == pools[k].waitq
    IN IF q # <<>>
       THEN [calls EXCEPT ![q[Len(q)]].pc = "running",
                          ![q[Len(q)]].page = p,
                          ![q[Len(q)]].had = p,
                          ![q[Len(q)]].got = HandlerArgs(q[Len(q)], p)]
       ELSE calls
LendCalls(p) ==
    LET k == pages[p].pool
    IN IF pools[k].waitq # <<>>
       THEN [calls EXCEPT ![Head(pools[k].waitq)].pc = "running",
                          ![Head(pools[k].waitq)].page = p,
                          ![Head(pools[k].waitq)].had = p,
                          ![Head(pools[k].waitq)].got = HandlerArgs(Head(pools[k].waitq), p)]
       ELSE calls

\* acquire is refused once the pool is draining
AcquireRejects(k) == pools[k].draining

\* release: the page goes back to the idle set, or is destroyed when the pool is
\* draining; then the pool dispenses to whoever waits
PoolRelease(pg, k, p) ==
    Dispense([pg EXCEPT ![p].st = IF pools[k].draining THEN "destroying" ELSE "idle"],
             k, Len(pools[k].waitq))

\* drain is over when no borrow request waits and no page is out or in preparation
DrainComplete(k) ==
    /\ pools[k].waitq = <<>>
    /\ PagesOf(pages, k, {"creating", "validating", "borrowed"}) = {}

\* clear starts the destruction of every idle page
PoolClear(pg, k) ==
    [p \in Pages |-> IF p \in IdleOf(pg, k) THEN [pg[p] EXCEPT !.st = "destroying"]
                     ELSE pg[p]]

ClearComplete(k) == PagesOf(pages, k, {"destroying"}) = {}

\* -------------------------------------------------------------- poolFactory
\* what a factory operation does, in order: the calls it makes and the
\* diagnostics (Helpers.debug) it emits
Call(m) == [k |-> "call", m |-> m]
Debug(m) == [k |-> "debug", m |-> m]
IsDebug(e) == e.k = "debug"
DiagsOf(events) == SelectSeq(events, IsDebug)
Count(events, e) == Cardinality({i \in 1..Len(events) : events[i] = e})

\* the name of the destroy hook: onBeforePageDestroy in src/index.js, onPageDestroy
\* in the later revision
DestroyHook == IF build = "index" THEN "onBeforePageDestroy" ELSE "onPageDestroy"

DestroyHookError ==
    IF build = "index" THEN "onBeforePageDestroy error" ELSE "onPageDestroy error"

\* the later revision reports a hook that completed
HookDone(msg) == IF build = "index" THEN <<>> ELSE <<Debug(msg)>>

ValidateDone(value) ==
    CASE value = "true" -> "onValidate done: true"
      [] value = "false" -> "onValidate done: false"
      [] value = "truthy" -> "onValidate done: truthy"
      [] OTHER -> "onValidate done: falsy"

\* each factory operation begins by destructuring this.options, which throws when
\* destroy() has set it to null; create then calls this.browser.newPage()
NoResult == [raised |-> TRUE, page |-> FALSE, open |-> FALSE, response |-> "none",
             events |-> <<>>]
OptionsMissing == options = Null
BrowserMissing == ~Truthy(browser)

\* faulty variant of FactoryCreate: a failing onPageCreated hook is not caught
FactoryCreateHookEscapes(minted, hasHook, hookThrows) ==
    [NoResult EXCEPT
       !.raised = minted /\ hasHook /\ hookThrows,
       !.page = minted /\ ~(hasHook /\ hookThrows),
       !.open = minted,
       !.events =
          <<Call("newPage")>> \o
          (IF ~minted THEN <<Debug("create page error")>>
           ELSE <<Debug("page is created")>> \o
                (IF ~hasHook THEN <<>>
                 ELSE <<Call("onPageCreated")>> \o
                      (IF hookThrows THEN <<>>
                       ELSE HookDone("onPageCreated done"))))]

\* faulty variant of FactoryCreate: a rejected newPage yields its error as the page
FactoryCreateReturnsError(minted, hasHook, hookThrows) ==
    [NoResult EXCEPT
       !.raised = FALSE,
       !.page = TRUE,
       !.open = minted,
       !.events =
          <<Call("newPage")>> \o
          (IF ~minted THEN <<Debug("create page error")>> ELSE <<>>) \o
          <<Debug("page is created")>> \o
          (IF ~hasHook THEN <<>>
           ELSE <<Call("onPageCreated")>> \o
                (IF hookThrows THEN <<Debug("onPageCreated error")>>
                 ELSE HookDone("onPageCreated done")))]

\* faulty variant of FactoryCreate: a rejected newPage is not caught
FactoryCreateNoCatch(minted, hasHook, hookThrows) ==
    [NoResult EXCEPT
       !.raised = ~minted,
       !.page = minted,
       !.open = minted,
       !.events =
          <<Call("newPage")>> \o
          (IF ~minted THEN <<>>
           ELSE <<Debug("page is created")>> \o
                (IF ~hasHook THEN <<>>
                 ELSE <<Call("onPageCreated")>> \o
                      (IF hookThrows THEN <<Debug("onPageCreated error")>>
                       ELSE HookDone("onPageCreated done"))))]

\* create, once newPage has settled: minted says whether newPage resolved
FactoryCreate(minted, hasHook, hookThrows) ==
    [NoResult EXCEPT
       !.raised = FALSE,
       !.page = minted,
       !.open = minted,
       !.events =
          <<Call("newPage")>> \o
          (IF ~minted THEN <<Debug("create page error")>>
           ELSE <<Debug("page is created")>> \o
                (IF ~hasHook THEN <<>>
                 ELSE <<Call("onPageCreated")>> \o
                      (IF hookThrows THEN <<Debug("onPageCreated error")>>
                       ELSE HookDone("onPageCreated done"))))]

\* faulty variant of FactoryDestroy: the page is reported destroyed but never closed
FactoryDestroyNoClose(present, open, hasHook, hookThrows) ==
    IF ~present THEN [NoResult EXCEPT !.raised = FALSE, !.open = open]
    ELSE [NoResult EXCEPT
            !.raised = FALSE,
            !.page = TRUE,
            !.open = open,
            !.events =
               (IF ~hasHook THEN <<>>
                ELSE <<Call(DestroyHook)>> \o
                     (IF hookThrows THEN <<Debug(DestroyHookError)>>
                      ELSE HookDone("onPageDestroy done")))
               \o <<Call("isClosed")>>
               \o <<Debug("page is destroyed")>>]

\* faulty variant of FactoryDestroy: close is called without asking isClosed
FactoryDestroyAlwaysClose(present, open, hasHook, hookThrows) ==
    IF ~present THEN [NoResult EXCEPT !.raised = FALSE, !.open = open]
    ELSE [NoResult EXCEPT
            !.raised = FALSE,
            !.page = TRUE,
            !.open = FALSE,
            !.events =
               (IF ~hasHook THEN <<>>
                ELSE <<Call(DestroyHook)>> \o
                     (IF hookThrows THEN <<Debug(DestroyHookError)>>
                      ELSE HookDone("onPageDestroy done")))
               \o <<Call("close")>>
               \o <<Debug("page is destroyed")>>]

\* faulty variant of FactoryDestroy: a failing destroy hook is not caught
FactoryDestroyHookEscapes(present, open, hasHook, hookThrows) ==
    IF ~present THEN [NoResult EXCEPT !.raised = FALSE, !.open = open]
    ELSE IF hasHook /\ hookThrows
    THEN [NoResult EXCEPT !.page = TRUE, !.open = open,
                          !.events = <<Call(DestroyHook)>>]
    ELSE [NoResult EXCEPT
            !.raised = FALSE,
            !.page = TRUE,
            !.open = FALSE,
            !.events =
               (IF ~hasHook THEN <<>>
                ELSE <<Call(DestroyHook)>> \o HookDone("onPageDestroy done"))
               \o <<Call("isClosed")>>
               \o (IF open THEN <<Call("close")>> ELSE <<>>)
               \o <<Debug("page is destroyed")>>]

\* destroy: nothing without a page; else the hook first, then close unless the
\* page is already closed, then the diagnostic
FactoryDestroy(present, open, hasHook, hookThrows) ==
    IF ~present THEN [NoResult EXCEPT !.raised = FALSE, !.open = open]
    ELSE [NoResult EXCEPT
            !.raised = FALSE,
            !.page = TRUE,
            !.open = FALSE,
            !.events =
               (IF ~hasHook THEN <<>>
                ELSE <<Call(DestroyHook)>> \o
                     (IF hookThrows THEN <<Debug(DestroyHookError)>>
                      ELSE HookDone("onPageDestroy done")))
               \o <<Call("isClosed")>>
               \o (IF open THEN <<Call("close")>> ELSE <<>>)
               \o <<Debug("page is destroyed")>>]

\* the values an onValidate hook can give: the two booleans, another truthy value,
\* another falsy value, or a throw
HookResults == {"true", "false", "truthy", "falsy", "throw"}

\* faulty variant of FactoryValidate: a throwing hook leaves the page eligible
FactoryValidateFailOpen(present, hasHook, hookResult) ==
    [NoResult EXCEPT
       !.raised = FALSE,
       !.page = present,
       !.response = IF ~present THEN "false"
                    ELSE IF ~hasHook THEN "true"
                    ELSE IF hookResult = "throw" THEN "true"
                    ELSE hookResult,
       !.events = IF ~present \/ ~hasHook THEN <<>>
                  ELSE <<Call("onValidate")>> \o
                       (IF hookResult = "throw" THEN <<Debug("onValidate error")>>
                        ELSE HookDone(ValidateDone(hookResult)))]

\* validate: response starts false; with a page, it becomes what the hook returned
\* (a throwing hook leaves it false), or true when there is no hook
FactoryValidate(present, hasHook, hookResult) ==
    [NoResult EXCEPT
       !.raised = FALSE,
       !.page = present,
       !.response = IF ~present THEN "false"
                    ELSE IF ~hasHook THEN "true"
                    ELSE IF hookResult = "throw" THEN "false"
                    ELSE hookResult,
       !.events = IF ~present \/ ~hasHook THEN <<>>
                  ELSE <<Call("onValidate")>> \o
                       (IF hookResult = "throw" THEN <<Debug("onValidate error")>>
                        ELSE HookDone(ValidateDone(hookResult)))]

\* the pool takes a page for valid when validate's answer is true
PoolAccepts(response) == response \in {"true", "truthy"}

\* the pool runs factory create to its end for page p
CreateFinish(p) ==
    /\ pages[p].st = "creating"
    /\ \E minted \in BOOLEAN, hookThrows \in BOOLEAN :
        /\ minted => (pages[p].via # Null /\ browsers[pages[p].via] = "open")
        /\ hookThrows => (minted /\ config.onPageCreated)
        /\ LET r == FactoryCreate(minted, config.onPageCreated, hookThrows)
           IN IF r.page
              THEN /\ pages' = LendPages([pages EXCEPT ![p].open = r.open], p)
                   /\ pools' = LendPools(p)
                   /\ calls' = LendCalls(p)
              ELSE /\ pages' = [pages EXCEPT ![p] = NoPage]
                   /\ UNCHANGED <<pools, calls>>
    /\ UNCHANGED <<frun, build, config, orch, browsers, launches, destroys>>

\* faulty variant of Substitute: the invalid page is created anew in place
SubstituteInPlace(pg, p) ==
    [pg EXCEPT ![p] = [st |-> "creating", pool |-> pg[p].pool, via |-> CreateVia,
                       open |-> FALSE]]

\* an invalid page p is destroyed and a fresh page is created in its place
Substitute(pg, p) ==
    LET fresh == FirstK(Absent(pg), 1)
    IN [q \in Pages |->
          IF q = p THEN [pg[p] EXCEPT !.st = "destroying"]
          ELSE IF q \in fresh
               THEN [st |-> "creating", pool |-> pg[p].pool, via |-> CreateVia,
                     open |-> FALSE]
               ELSE pg[q]]

\* the pool validates an idle page before handing it out again
ValidateFinish(p) ==
    /\ pages[p].st = "validating"
    /\ \E r \in {"true", "false", "throw"} :
        /\ (r # "true") => (config.onValidate /\ Absent(pages) # {})
        /\ IF PoolAccepts(FactoryValidate(TRUE, config.onValidate, r).response)
           THEN /\ pages' = LendPages(pages, p)
                /\ pools' = LendPools(p)
                /\ calls' = LendCalls(p)
           ELSE /\ pages' = Substitute(pages, p)
                /\ UNCHANGED <<pools, calls>>
    /\ UNCHANGED <<frun, build, config, orch, browsers, launches, destroys>>

\* faulty variant of DestroyPage: with a destroy hook configured the destruction
\* never comes to its end
DestroyPageHookBlocks(p) ==
    /\ pages[p].st = "destroying"
    /\ ~config.onBeforePageDestroy
    /\ pages' = [pages EXCEPT
          ![p].st = "destroyed",
          ![p].open = IF options = Null THEN @
                      ELSE FactoryDestroy(TRUE, @, FALSE, FALSE).open]
    /\ UNCHANGED <<frun, build, config, orch, browsers, pools, calls, launches, destroys>>

\* the pool runs factory destroy for page p; with this.options null the
\* destructuring at its top throws and the page is never closed
DestroyPage(p) ==
    /\ pages[p].st = "destroying"
    /\ \E hookThrows \in BOOLEAN :
        /\ hookThrows => (config.onBeforePageDestroy /\ options # Null)
        /\ pages' = [pages EXCEPT
              ![p].st = "destroyed",
              ![p].open = IF options = Null THEN @
                          ELSE FactoryDestroy(TRUE, @, config.onBeforePageDestroy,
                                              hookThrows).open]
    /\ UNCHANGED <<frun, build, config, orch, browsers, pools, calls, launches, destroys>>

\* the pool tries again for borrow requests left waiting by a failed creation
PoolRetry(k) ==
    /\ pools[k].made
    /\ Dispense(pages, k, Len(pools[k].waitq)) # pages
    /\ pages' = Dispense(pages, k, Len(pools[k].waitq))
    /\ UNCHANGED <<frun, build, config, orch, browsers, pools, calls, launches, destroys>>

\* ------------------------------------------------------------------ launch
\* launch up to `await puppeteer.launch(...)`: destructuring this.options
\* throws when a destroy has set it to null
LaunchStart(l) ==
    /\ launches[l].pc = "new"
    /\ (l > 1) => (launches[l - 1].pc # "new")
    /\ (l > BusyLife) => ~Busy
    /\ launches' = [launches EXCEPT
          ![l].pc = IF options = Null THEN "raised" ELSE "launching"]
    /\ UNCHANGED <<frun, build, config, orch, browsers, pools, pages, calls, destroys>>

\* launch after puppeteer.launch settled, src/index.js: a rejection leaves launch
\* rejected; otherwise the browser is stored and the pool is created
LaunchSettleIndex(l, ok, poolOk) ==
    IF ~ok
    THEN /\ launches' = [launches EXCEPT ![l].pc = "raised", ![l].outcome = "failed"]
         /\ UNCHANGED <<orch, browsers, pools>>
    ELSE /\ browser' = l
         /\ browsers' = [browsers EXCEPT ![l] = "open"]
         /\ pool' = IF poolOk THEN l ELSE Null
         /\ pools' = IF poolOk
                     THEN [pools EXCEPT ![l].made = TRUE, ![l].listeners = 2]
                     ELSE pools
         /\ launches' = [launches EXCEPT
               ![l].pc = "done",
               ![l].outcome = "ok",
               ![l].madePool = poolOk,
               ![l].diags = <<"browser is created",
                              IF poolOk THEN "pool is created" ELSE "pool is not created">>]
         /\ UNCHANGED options

\* faulty variant of LaunchSettlePart: the pool is created without a browser
LaunchSettlePartNoGuard(l, ok, poolOk) ==
    /\ browser' = IF ok THEN l ELSE Undefined
    /\ browsers' = IF ok THEN [browsers EXCEPT ![l] = "open"] ELSE browsers
    /\ pool' = IF poolOk THEN l ELSE Null
    /\ pools' = IF Truthy(pool')
                THEN [pools EXCEPT ![pool'].made = TRUE, ![pool'].listeners = @ + 2]
                ELSE pools
    /\ launches' = [launches EXCEPT
          ![l].pc = "done",
          ![l].outcome = IF ok THEN "ok" ELSE "failed",
          ![l].madePool = poolOk,
          ![l].diags = <<IF ok THEN "browser is created" ELSE "browser create error",
                         IF Truthy(pool') THEN "pool is created" ELSE "pool is not created">>]
    /\ UNCHANGED options

\* the same in the later revision (src/unnamed/part_000): a rejection is caught and
\* stored as an undefined browser, and the pool is created only with a browser
LaunchSettlePart(l, ok, poolOk) ==
    /\ browser' = IF ok THEN l ELSE Undefined
    /\ browsers' = IF ok THEN [browsers EXCEPT ![l] = "open"] ELSE browsers
    /\ pool' = IF ok THEN (IF poolOk THEN l ELSE Null) ELSE pool
    /\ pools' = IF Truthy(pool')
                THEN [pools EXCEPT ![pool'].made = TRUE, ![pool'].listeners = @ + 2]
                ELSE pools
    /\ launches' = [launches EXCEPT
          ![l].pc = "done",
          ![l].outcome = IF ok THEN "ok" ELSE "failed",
          ![l].madePool = ok /\ poolOk,
          ![l].diags = <<IF ok THEN "browser is created" ELSE "browser create error",
                         IF Truthy(pool') THEN "pool is created" ELSE "pool is not created">>]
    /\ UNCHANGED options

LaunchSettle(l) ==
    /\ launches[l].pc = "launching"
    /\ \E ok \in BOOLEAN, poolOk \in BOOLEAN :
        /\ ~ok => poolOk
        /\ IF build = "index" THEN LaunchSettleIndex(l, ok, poolOk)
                              ELSE LaunchSettlePart(l, ok, poolOk)
    /\ UNCHANGED <<frun, build, config, pages, calls, destroys>>

\* ----------------------------------------------------------------- process
\* process with this.pool missing: one diagnostic, nothing else
ProcessNoPool(c, h) ==
    /\ calls' = [calls EXCEPT ![c].pc = "done", ![c].handler = h,
                              ![c].diags = <<"pool is not found">>]
    /\ UNCHANGED <<pools, pages>>

\* process with a handler that is not a function: one diagnostic, nothing else
ProcessNoHandler(c, h) ==
    /\ calls' = [calls EXCEPT ![c].pc = "done", ![c].handler = h, ![c].pool = pool,
                              ![c].diags = <<"handler is not a function">>]
    /\ UNCHANGED <<pools, pages>>

\* faulty variant of ProcessUse: a refused borrow is not caught
ProcessUseNoCatch(c, h) ==
    IF AcquireRejects(pool)
    THEN /\ calls' = [calls EXCEPT ![c].pc = "raised", ![c].handler = h,
                                   ![c].pool = pool, ![c].failed = TRUE]
         /\ UNCHANGED <<pools, pages>>
    ELSE /\ calls' = [calls EXCEPT ![c].pc = "acquiring", ![c].handler = h,
                                   ![c].pool = pool]
         /\ pools' = [pools EXCEPT ![pool].waitq = Append(@, c)]
         /\ pages' = Dispense(pages, pool, Len(pools[pool].waitq) + 1)

\* process calls this.pool.use: a refused borrow is caught and reported; otherwise
\* the call waits for its page
ProcessUse(c, h) ==
    IF AcquireRejects(pool)
    THEN /\ calls' = [calls EXCEPT ![c].pc = "done", ![c].handler = h,
                                   ![c].pool = pool, ![c].failed = TRUE,
                                   ![c].diags = <<"process error">>]
         /\ UNCHANGED <<pools, pages>>
    ELSE /\ calls' = [calls EXCEPT ![c].pc = "acquiring", ![c].handler = h,
                                   ![c].pool = pool]
         /\ pools' = [pools EXCEPT ![pool].waitq = Append(@, c)]
         /\ pages' = Dispense(pages, pool, Len(pools[pool].waitq) + 1)

\* a process call may be issued: calls are numbered in the order they are issued
ProcessIssued(c) ==
    /\ calls[c].pc = "new"
    /\ (c > 1) => (calls[c - 1].pc # "new")
    /\ (c > ChurnCalls) => ~Churn

\* faulty variant of Process: the handler is checked before the pool
ProcessHandlerFirst(c) ==
    /\ ProcessIssued(c)
    /\ \E h \in {"function", "other"} :
        IF h # "function" THEN ProcessNoHandler(c, h)
        ELSE IF ~Truthy(pool) THEN ProcessNoPool(c, h)
        ELSE ProcessUse(c, h)
    /\ UNCHANGED <<frun, build, config, orch, browsers, launches, destroys>>

\* faulty variant of Process: the handler is not checked at all
ProcessNoHandlerCheck(c) ==
    /\ ProcessIssued(c)
    /\ \E h \in {"function", "other"} :
        IF ~Truthy(pool) THEN ProcessNoPool(c, h)
        ELSE ProcessUse(c, h)
    /\ UNCHANGED <<frun, build, config, orch, browsers, launches, destroys>>

\* process(handler, ...args) up to `await this.pool.use(...)`
Process(c) ==
    /\ ProcessIssued(c)
    /\ \E h \in {"function", "other"} :
        IF ~Truthy(pool) THEN ProcessNoPool(c, h)
        ELSE IF h # "function" THEN ProcessNoHandler(c, h)
        ELSE ProcessUse(c, h)
    /\ UNCHANGED <<frun, build, config, orch, browsers, launches, destroys>>

\* faulty variant of ProcessSettle: a failed handler leaves its page on loan
ProcessSettleLeak(c) ==
    /\ calls[c].pc = "running"
    /\ \E ok \in BOOLEAN :
        /\ calls' = [calls EXCEPT ![c].pc = "done", ![c].page = Null, ![c].failed = ~ok,
                                  ![c].diags = IF ok THEN <<>> ELSE <<"process error">>]
        /\ pages' = IF ok THEN PoolRelease(pages, calls[c].pool, calls[c].page) ELSE pages
    /\ UNCHANGED <<frun, build, config, orch, browsers, pools, launches, destroys>>

\* faulty variant of ProcessSettle: a failed handler is not caught
ProcessSettleNoCatch(c) ==
    /\ calls[c].pc = "running"
    /\ \E ok \in BOOLEAN :
        calls' = [calls EXCEPT ![c].pc = IF ok THEN "done" ELSE "raised",
                               ![c].page = Null, ![c].failed = ~ok]
    /\ pages' = PoolRelease(pages, calls[c].pool, calls[c].page)
    /\ UNCHANGED <<frun, build, config, orch, browsers, pools, launches, destroys>>

\* faulty variant of ProcessSettle: a failed handler makes process drop the pool
ProcessSettleDropsPool(c) ==
    /\ calls[c].pc = "running"
    /\ \E ok \in BOOLEAN :
        /\ calls' = [calls EXCEPT ![c].pc = "done", ![c].page = Null, ![c].failed = ~ok,
                                  ![c].diags = IF ok THEN <<>> ELSE <<"process error">>]
        /\ pool' = IF ok THEN pool ELSE Null
    /\ pages' = PoolRelease(pages, calls[c].pool, calls[c].page)
    /\ UNCHANGED <<frun, build, config, browser, options, browsers, pools, launches,
                   destroys>>

\* the handler of call c settles: pool.use gives the page back, and process
\* reports a failure in its catch and resolves
ProcessSettle(c) ==
    /\ calls[c].pc = "running"
    /\ \E ok \in BOOLEAN :
        calls' = [calls EXCEPT ![c].pc = "done", ![c].page = Null, ![c].failed = ~ok,
                               ![c].diags = IF ok THEN <<>> ELSE <<"process error">>]
    /\ pages' = PoolRelease(pages, calls[c].pool, calls[c].page)
    /\ UNCHANGED <<frun, build, config, orch, browsers, pools, launches, destroys>>

\* ----------------------------------------------------------------- destroy
\* faulty variant of DestroyBrowser: this.options is not reset
DestroyBrowserNoReset(d, dr) ==
    IF Truthy(browser)
    THEN /\ destroys' = [destroys EXCEPT ![d] =
               [dr EXCEPT !.pc = "closing", !.ops = Append(@, "close"),
                          !.closed = browser]]
         /\ UNCHANGED <<orch, browsers>>
    ELSE /\ browser' = Null /\ pool' = Null
         /\ destroys' = [destroys EXCEPT ![d] =
               [dr EXCEPT !.pc = "done", !.returned = "null"]]
         /\ UNCHANGED <<browsers, options>>

\* the tail of destroy: close this.browser when there is one, else reset and
\* return null
DestroyBrowser(d, dr) ==
    IF Truthy(browser)
    THEN /\ destroys' = [destroys EXCEPT ![d] =
               [dr EXCEPT !.pc = "closing", !.ops = Append(@, "close"),
                          !.closed = browser]]
         /\ UNCHANGED <<orch, browsers>>
    ELSE /\ browser' = Null /\ options' = Null /\ pool' = Null
         /\ destroys' = [destroys EXCEPT ![d] =
               [dr EXCEPT !.pc = "done", !.returned = "null"]]
         /\ UNCHANGED browsers

\* faulty variant of DestroyStart: the browser is closed only along with a pool
DestroyStartPoolOnly(d) ==
    /\ destroys[d].pc = "new"
    /\ (d > 1) => (destroys[d - 1].pc # "new")
    /\ (d > BusyLife) => ~Busy
    /\ IF Truthy(pool)
       THEN /\ pools' = [pools EXCEPT ![pool].draining = TRUE]
            /\ destroys' = [destroys EXCEPT ![d].pc = "draining",
                                            ![d].ops = <<"drain">>,
                                            ![d].dpool = pool]
            /\ UNCHANGED <<orch, browsers>>
       ELSE /\ browser' = Null /\ options' = Null /\ pool' = Null
            /\ destroys' = [destroys EXCEPT ![d].pc = "done", ![d].returned = "null"]
            /\ UNCHANGED <<browsers, pools>>
    /\ UNCHANGED <<frun, build, config, pages, calls, launches>>

\* destroy up to its first await
DestroyStart(d) ==
    /\ destroys[d].pc = "new"
    /\ (d > 1) => (destroys[d - 1].pc # "new")
    /\ (d > BusyLife) => ~Busy
    /\ IF Truthy(pool)
       THEN /\ pools' = [pools EXCEPT ![pool].draining = TRUE]
            /\ destroys' = [destroys EXCEPT ![d].pc = "draining",
                                            ![d].ops = <<"drain">>,
                                            ![d].dpool = pool]
            /\ UNCHANGED <<orch, browsers>>
       ELSE /\ DestroyBrowser(d, destroys[d])
            /\ UNCHANGED pools
    /\ UNCHANGED <<frun, build, config, pages, calls, launches>>

\* faulty variant of DestroyDrained: drain is not awaited
DestroyDrainedNoAwait(d) ==
    /\ destroys[d].pc = "draining"
    /\ IF Truthy(pool)
       THEN /\ pages' = PoolClear(pages, pool)
            /\ destroys' = [destroys EXCEPT ![d].pc = "clearing",
                                            ![d].ops = Append(@, "clear"),
                                            ![d].cpool = pool]
       ELSE /\ destroys' = [destroys EXCEPT ![d].pc = "raised"]
            /\ UNCHANGED pages
    /\ UNCHANGED <<frun, build, config, orch, browsers, pools, calls, launches>>

\* drain resolved: `await this.pool.clear()` reads this.pool again
DestroyDrained(d) ==
    /\ destroys[d].pc = "draining"
    /\ DrainComplete(destroys[d].dpool)
    /\ IF Truthy(pool)
       THEN /\ pages' = PoolClear(pages, pool)
            /\ destroys' = [destroys EXCEPT ![d].pc = "clearing",
                                            ![d].ops = Append(@, "clear"),
                                            ![d].cpool = pool]
       ELSE /\ destroys' = [destroys EXCEPT ![d].pc = "raised"]
            /\ UNCHANGED pages
    /\ UNCHANGED <<frun, build, config, orch, browsers, pools, calls, launches>>

\* faulty variant of DestroyCleared: clear is not awaited
DestroyClearedNoAwait(d) ==
    /\ destroys[d].pc = "clearing"
    /\ DestroyBrowser(d, [destroys[d] EXCEPT !.diags = Append(@, "pool is closed")])
    /\ UNCHANGED <<frun, build, config, pools, pages, calls, launches>>

\* clear resolved
DestroyCleared(d) ==
    /\ destroys[d].pc = "clearing"
    /\ ClearComplete(destroys[d].cpool)
    /\ DestroyBrowser(d, [destroys[d] EXCEPT !.diags = Append(@, "pool is closed")])
    /\ UNCHANGED <<frun, build, config, pools, pages, calls, launches>>

\* browser.close() rejected: nothing in destroy catches it, so destroy rejects
\* before it resets the fields
DestroyCloseFailed(d) ==
    /\ destroys[d].pc = "closing"
    /\ destroys' = [destroys EXCEPT ![d].pc = "raised"]
    /\ UNCHANGED <<frun, build, config, orch, browsers, pools, pages, calls, launches>>

\* browser.close() resolved: the browser is closed
DestroyClosed(d) ==
    /\ destroys[d].pc = "closing"
    /\ browsers' = [browsers EXCEPT ![destroys[d].closed] = "closed"]
    /\ browser' = Null /\ options' = Null /\ pool' = Null
    /\ destroys' = [destroys EXCEPT ![d].pc = "done",
                                    ![d].diags = Append(@, "browser is closed"),
                                    ![d].returned = "null"]
    /\ UNCHANGED <<frun, build, config, pools, pages, calls, launches>>

\* ------------------------------------------------------------ specification
Next ==
    \/ \E l \in Launches : LaunchStart(l)
    \/ \E l \in Launches : LaunchSettle(l)
    \/ \E c \in Calls : Process(c)
    \/ \E c \in Calls : ProcessSettle(c)
    \/ \E p \in Pages : CreateFinish(p)
    \/ \E p \in Pages : ValidateFinish(p)
    \/ \E p \in Pages : DestroyPage(p)
    \/ \E k \in PoolIds : PoolRetry(k)
    \/ \E d \in Destroys : DestroyStart(d)
    \/ \E d \in Destroys : DestroyDrained(d)
    \/ \E d \in Destroys : DestroyCleared(d)
    \/ \E d \in Destroys : DestroyClosed(d)
    \/ \E d \in Destroys : DestroyCloseFailed(d)

Spec == Init /\ [][Next]_vars

\* The program after a first launch that created browser and pool, with all
\* three hooks configured, and with the scheduling of the event loop stated: a
\* factory create or destroy that the pool has started runs to its end, since
\* every promise it awaits settles and a settled promise's continuation is run.
FairInit ==
    /\ build \in {"index", "part_000"}
    /\ config = [onPageCreated |-> TRUE, onBeforePageDestroy |-> TRUE,
                 onValidate |-> TRUE, acquireTimeout |-> FALSE]
    /\ browser = 1
    /\ options = 1
    /\ pool = 1
    /\ browsers = [b \in BrowserIds |-> IF b = 1 THEN "open" ELSE "none"]
    /\ pools = [k \in PoolIds |->
                  IF k = 1 THEN [NoPool EXCEPT !.made = TRUE, !.listeners = 2]
                  ELSE NoPool]
    /\ pages = [p \in Pages |-> NoPage]
    /\ calls = [c \in Calls |-> NewCall]
    /\ launches = [l \in Launches |->
                     IF l = 1
                     THEN [pc |-> "done", outcome |-> "ok", madePool |-> TRUE,
                           diags |-> <<"browser is created", "pool is created">>]
                     ELSE NewLaunch]
    /\ destroys = [d \in Destroys |-> NewDestroy]
    /\ frun = NoRun

FairSpec ==
    /\ FairInit
    /\ [][Next]_vars
    /\ \A p \in Pages : WF_vars(CreateFinish(p)) /\ WF_vars(DestroyPage(p))

\* ------------------------------------------- with an acquire timeout set
\* faulty variant of WithoutRequest: the request stays in the queue
WithoutRequestKept(q, c) == q
\* the wait queue q once the pool has given up on the request of call c
WithoutRequest(q, c) == SelectSeq(q, LAMBDA x : x # c)

\* the acquire timeout of a waiting borrow request runs out: the pool rejects the
\* request and forgets it, pool.use rejects, and process reports it in its catch
AcquireTimeout(c) ==
    /\ config.acquireTimeout
    /\ calls[c].pc = "acquiring"
    /\ pools' = [pools EXCEPT ![calls[c].pool].waitq = WithoutRequest(@, c)]
    /\ calls' = [calls EXCEPT ![c].pc = "done", ![c].failed = TRUE,
                              ![c].diags = <<"process error">>]
    /\ UNCHANGED <<frun, build, config, orch, browsers, pages, launches, destroys>>

\* the options carry no hook and poolOptions sets acquireTimeoutMillis
TimeoutInit ==
    /\ build \in {"index", "part_000"}
    /\ config = [onPageCreated |-> FALSE, onBeforePageDestroy |-> FALSE,
                 onValidate |-> FALSE, acquireTimeout |-> TRUE]
    /\ browser = Null
    /\ options = 1
    /\ pool = Null
    /\ browsers = [b \in BrowserIds |-> "none"]
    /\ pools = [k \in PoolIds |-> NoPool]
    /\ pages = [p \in Pages |-> NoPage]
    /\ calls = [c \in Calls |-> NewCall]
    /\ launches = [l \in Launches |-> NewLaunch]
    /\ destroys = [d \in Destroys |-> NewDestroy]
    /\ frun = NoRun

TimeoutNext ==
    \/ Next
    \/ \E c \in Calls : AcquireTimeout(c)

TimeoutSpec == TimeoutInit /\ [][TimeoutNext]_vars

\* ------------------------------------------------ the constructor on its own
\* JavaScript values that can be given to `new PagePool(options)`: a plain
\* object with some of the option keys, an array, a primitive, a function, null,
\* or nothing at all
OptionKeys == {"onPageCreated", "onBeforePageDestroy", "onValidate", "poolOptions",
               "puppeteerOptions"}
MaxItems == 2
JsValue(kind, keys, n) == [kind |-> kind, keys |-> keys, n |-> n]
EmptyObject == JsValue("object", {}, 0)
Inputs ==
    {JsValue("object", ks, 0) : ks \in SUBSET OptionKeys}
        \cup {JsValue("array", {}, n) : n \in 0..MaxItems}
        \cup {JsValue(k, {}, n) : k \in {"number", "string", "boolean"}, n \in 0..1}
        \cup {JsValue(k, {}, 0) : k \in {"null", "undefined", "function"}}

\* typeof, !! and Array.isArray
TypeOf(x) == IF x.kind \in {"object", "array", "null"} THEN "object" ELSE x.kind
JsTruthy(x) ==
    IF x.kind \in {"null", "undefined"} THEN FALSE
    ELSE IF x.kind \in {"number", "string", "boolean"} THEN x.n # 0
    ELSE TRUE
IsArray(x) == x.kind = "array"

\* faulty variant of Constructor: an array is kept as the options
ConstructorKeepsArray(given) ==
    LET opts == IF given.kind = "undefined" THEN EmptyObject ELSE given
    IN [browser |-> Null,
        options |-> IF TypeOf(opts) = "object" /\ JsTruthy(opts) THEN opts ELSE EmptyObject,
        pool |-> Null]

\* constructor (options = {}): the default stands in for an omitted argument
Constructor(given) ==
    LET opts == IF given.kind = "undefined" THEN EmptyObject ELSE given
    IN [browser |-> Null,
        options |-> IF TypeOf(opts) = "object" /\ JsTruthy(opts) /\ ~IsArray(opts)
                    THEN opts ELSE EmptyObject,
        pool |-> Null]

\* before the constructor has run no field of the object is assigned
ConstructInit ==
    /\ build \in {"index", "part_000"}
    /\ config = [onPageCreated |-> FALSE, onBeforePageDestroy |-> FALSE,
                 onValidate |-> FALSE, acquireTimeout |-> FALSE]
    /\ browser = Undefined
    /\ options = Undefined
    /\ pool = Undefined
    /\ browsers = [b \in BrowserIds |-> "none"]
    /\ pools = [k \in PoolIds |-> NoPool]
    /\ pages = [p \in Pages |-> NoPage]
    /\ calls = [c \in Calls |-> NewCall]
    /\ launches = [l \in Launches |-> NewLaunch]
    /\ destroys = [d \in Destroys |-> NewDestroy]
    /\ \E x \in Inputs : frun = [op |-> "new", given |-> x, made |-> EmptyObject]

\* new PagePool(given): the three assignments; this.options is from now on the
\* options object, whose value frun.made keeps
Construct ==
    /\ frun.op = "new"
    /\ browser' = Constructor(frun.given).browser
    /\ options' = 1
    /\ pool' = Constructor(frun.given).pool
    /\ frun' = [frun EXCEPT !.op = "constructed", !.made = Constructor(frun.given).options]
    /\ UNCHANGED <<build, config, browsers, pools, pages, calls, launches, destroys>>

ConstructNext == Construct

ConstructSpec == ConstructInit /\ [][ConstructNext]_vars

\* ------------------------------------------------- the factory on its own
\* The three factory operations are functions of their arguments, of the hooks
\* and of the orchestrator's fields. Under FactorySpec one factory operation is
\* called on an orchestrator that was just constructed, that was launched, or
\* that was destroyed, with every page argument and every hook outcome.
FactoryInit ==
    /\ build \in {"index", "part_000"}
    /\ config \in [onPageCreated : BOOLEAN, onBeforePageDestroy : BOOLEAN,
                   onValidate : BOOLEAN, acquireTimeout : {FALSE}]
    /\ \E state \in {"constructed", "launched", "destroyed"} :
        /\ browser = IF state = "launched" THEN 1 ELSE Null
        /\ options = IF state = "destroyed" THEN Null ELSE 1
        /\ pool = IF state = "launched" THEN 1 ELSE Null
        /\ browsers = [b \in BrowserIds |->
                         IF state = "launched" /\ b = 1 THEN "open" ELSE "none"]
        /\ pools = [k \in PoolIds |->
                      IF state = "launched" /\ k = 1
                      THEN [NoPool EXCEPT !.made = TRUE, !.listeners = 2]
                      ELSE NoPool]
        /\ launches = [l \in Launches |->
                         IF state = "launched" /\ l = 1
                         THEN [pc |-> "done", outcome |-> "ok", madePool |-> TRUE,
                               diags |-> <<"browser is created", "pool is created">>]
                         ELSE NewLaunch]
        /\ destroys = [d \in Destroys |->
                         IF state = "destroyed" /\ d = 1
                         THEN [NewDestroy EXCEPT !.pc = "done", !.returned = "null"]
                         ELSE NewDestroy]
    /\ pages = [p \in Pages |-> NoPage]
    /\ calls = [c \in Calls |-> NewCall]
    /\ frun = NoRun

\* the record of one factory call: its arguments and what it did
Ran(op, present, wasOpen, minted, hook, r) ==
    [op |-> op, present |-> present, wasOpen |-> wasOpen, minted |-> minted,
     hook |-> hook, raised |-> r.raised, page |-> r.page, open |-> r.open,
     response |-> r.response, events |-> r.events]

\* poolFactory.create.call(this)
FactoryCreateCall ==
    /\ frun.op = "none"
    /\ \E minted \in BOOLEAN, hookThrows \in BOOLEAN :
        /\ minted => (~OptionsMissing /\ ~BrowserMissing)
        /\ hookThrows => (minted /\ config.onPageCreated)
        /\ frun' = Ran("create", FALSE, FALSE, minted,
                       IF ~(minted /\ config.onPageCreated) THEN "none"
                       ELSE IF hookThrows THEN "throw" ELSE "ok",
                       IF OptionsMissing \/ BrowserMissing THEN NoResult
                       ELSE FactoryCreate(minted, config.onPageCreated, hookThrows))
    /\ UNCHANGED <<build, config, orch, browsers, pools, pages, calls, launches, destroys>>

\* poolFactory.destroy.call(this, page)
FactoryDestroyCall ==
    /\ frun.op = "none"
    /\ \E present \in BOOLEAN, open \in BOOLEAN, hookThrows \in BOOLEAN :
        /\ open => present
        /\ hookThrows => (present /\ config.onBeforePageDestroy /\ ~OptionsMissing)
        /\ frun' = Ran("destroy", present, open, FALSE,
                       IF ~(present /\ config.onBeforePageDestroy) \/ OptionsMissing
                       THEN "none" ELSE IF hookThrows THEN "throw" ELSE "ok",
                       IF OptionsMissing THEN [NoResult EXCEPT !.open = open]
                       ELSE FactoryDestroy(present, open, config.onBeforePageDestroy,
                                           hookThrows))
    /\ UNCHANGED <<build, config, orch, browsers, pools, pages, calls, launches, destroys>>

\* poolFactory.validate.call(this, page)
FactoryValidateCall ==
    /\ frun.op = "none"
    /\ \E present \in BOOLEAN, hookResult \in HookResults \cup {"none"} :
        /\ (hookResult # "none") <=> (present /\ config.onValidate /\ ~OptionsMissing)
        /\ frun' = Ran("validate", present, present, FALSE, hookResult,
                       IF OptionsMissing THEN NoResult
                       ELSE FactoryValidate(present, config.onValidate, hookResult))
    /\ UNCHANGED <<build, config, orch, browsers, pools, pages, calls, launches, destroys>>

FactoryNext ==
    \/ FactoryCreateCall
    \/ FactoryDestroyCall
    \/ FactoryValidateCall

FactorySpec == FactoryInit /\ [][FactoryNext]_vars

\* ------------------------------------------------------------------ claims
RunningOn(k) == {c \in Calls : calls[c].pc = "running" /\ calls[c].pool = k}
Started(c) == calls[c].pc # "new"
Issues(c) == calls[c].pc = "new" /\ calls'[c].pc # "new"

\* C1: in every reachable state the number of pages of a pool that are borrowed
\* (handed to a handler and not yet returned) is at most poolOptions.max.
C1_BorrowedAtMostMax ==
    \A k \in PoolIds :
        /\ Cardinality(PagesOf(pages, k, {"borrowed"})) <= PoolMax
        /\ Cardinality(RunningOn(k)) <= PoolMax

\* the pool is at its maximum and a further process call waits
C1_Witness ==
    \E k \in PoolIds :
        /\ Cardinality(RunningOn(k)) = PoolMax
        /\ Cardinality(PagesOf(pages, k, {"borrowed"})) = PoolMax
        /\ pools[k].waitq # <<>>

\* C2: no page is lent to two process handlers at the same time: a running
\* handler's page is on loan, and no other running handler holds the same page.
C2_NoSharedPage ==
    \A c1 \in Calls :
        calls[c1].pc = "running" =>
            /\ calls[c1].page \in Pages
            /\ pages[calls[c1].page].st = "borrowed"
            /\ \A c2 \in Calls \ {c1} : calls[c2].page # calls[c1].page

\* two handlers run at once, one of them on a page that was used before
C2_Witness ==
    \E c1, c2, c3 \in Calls :
        /\ c1 # c2
        /\ calls[c1].pc = "running" /\ calls[c2].pc = "running"
        /\ calls[c3].pc = "done" /\ calls[c3].had = calls[c1].page

\* C3: when the handler of a process call finishes, normally or by failing, the
\* page the call borrowed goes back to the pool: in the state in which the call
\* has completed the page is held by nobody and is idle, under validation for the
\* next borrower, or being destroyed by a draining pool.
C3_ReleasedAfterHandler ==
    [][\A c \in Calls :
         (calls[c].pc = "running" /\ calls'[c].pc # "running") =>
            /\ calls'[c].pc = "done"
            /\ calls'[c].page = Null
            /\ pages'[calls[c].page].st \in {"idle", "validating", "destroying"}
            /\ \A c2 \in Calls : calls'[c2].page # calls[c].page]_vars

\* one call's handler failed, another's completed, and both pages are back
C3_Witness ==
    \E c1, c2 \in Calls :
        /\ calls[c1].pc = "done" /\ calls[c1].had # Null /\ calls[c1].failed
        /\ calls[c2].pc = "done" /\ calls[c2].had # Null /\ ~calls[c2].failed
        /\ pages[calls[c1].had].st = "idle"
        /\ pages[calls[c2].had].st = "idle"

\* C4: a process call on a launched orchestrator whose handler or borrow failed
\* has emitted exactly one diagnostic, 'process error', and has completed
\* normally (it did not raise).
C4_FailureReportedOnce ==
    \A c \in Calls :
        /\ calls[c].pc \in {"new", "acquiring", "running", "done"}
        /\ calls[c].failed =>
              /\ calls[c].pc = "done"
              /\ calls[c].diags = <<"process error">>

\* one call failed in its handler, another was refused its borrow
C4_Witness ==
    \E c1, c2 \in Calls :
        /\ calls[c1].failed /\ calls[c1].had # Null
        /\ calls[c2].failed /\ calls[c2].had = Null

\* C5: a process call issued while the pool is absent, whatever its handler,
\* emits exactly one diagnostic ('pool is not found'), borrows no page, invokes no
\* handler, creates no browser and no pool, and completes without raising.
C5_NoPoolNoEffect ==
    [][\A c \in Calls :
         (Issues(c) /\ ~Truthy(pool)) =>
            /\ calls'[c] = [NewCall EXCEPT !.pc = "done",
                                           !.handler = calls'[c].handler,
                                           !.diags = <<"pool is not found">>]
            /\ \A c2 \in Calls \ {c} : calls'[c2] = calls[c2]
            /\ UNCHANGED <<browser, options, pool, browsers, pools, pages>>]_vars

\* both a callable and a non-callable handler were passed with no pool
C5_Witness ==
    \E c1, c2 \in Calls :
        /\ calls[c1].diags = <<"pool is not found">> /\ calls[c1].handler = "function"
        /\ calls[c2].diags = <<"pool is not found">> /\ calls[c2].handler = "other"

\* C6: a process call on a launched orchestrator with a handler that is not
\* callable emits exactly one diagnostic ('handler is not a function'), never
\* calls the pool (nothing is enqueued, acquired, created or released) and
\* completes without raising.
C6_NoHandlerNoEffect ==
    [][\A c \in Calls :
         (Issues(c) /\ Truthy(pool) /\ calls'[c].handler = "other") =>
            /\ calls'[c] = [NewCall EXCEPT !.pc = "done",
                                           !.handler = "other",
                                           !.pool = pool,
                                           !.diags = <<"handler is not a function">>]
            /\ \A c2 \in Calls \ {c} : calls'[c2] = calls[c2]
            /\ UNCHANGED <<browser, options, pool, browsers, pools, pages>>]_vars

\* a non-callable handler was passed while another call held a page
C6_Witness ==
    \E c1, c2 \in Calls :
        /\ calls[c1].diags = <<"handler is not a function">>
        /\ calls[c1].pc = "done"
        /\ calls[c2].pc = "running"

\* C7: as long as every launch so far failed to create the browser (or has not
\* settled), no pool has been constructed, this.pool is absent, and every process
\* call issued has returned with the 'pool is not found' diagnostic.
NoLaunchSucceeded == \A l \in Launches : launches[l].outcome # "ok"

C7_FailedLaunchNoPool ==
    NoLaunchSucceeded =>
        /\ pool = Null
        /\ \A k \in PoolIds : ~pools[k].made
        /\ \A l \in Launches : ~launches[l].madePool
        /\ \A c \in Calls :
              Started(c) => /\ calls[c].pc = "done"
                            /\ calls[c].diags = <<"pool is not found">>

\* a launch failed to create the browser and a later process call returned
C7_Witness ==
    /\ NoLaunchSucceeded
    /\ \E l \in Launches : launches[l].outcome = "failed"
    /\ \E c \in Calls : calls[c].pc = "done"

\* C8: destroy() on an orchestrator with neither pool nor browser runs to its end
\* in one step: it performs no pool operation and no browser operation, emits no
\* diagnostic, resets browser, options and pool to null and returns null.
C8_DestroyBeforeLaunch ==
    [][\A d \in Destroys :
         (destroys[d].pc = "new" /\ destroys'[d].pc # "new"
            /\ ~Truthy(pool) /\ ~Truthy(browser)) =>
            /\ destroys'[d] = [NewDestroy EXCEPT !.pc = "done", !.returned = "null"]
            /\ browser' = Null /\ options' = Null /\ pool' = Null
            /\ UNCHANGED <<browsers, pools, pages, calls, launches>>]_vars

\* destroy completed on an orchestrator that was never launched
C8_Witness ==
    /\ \A l \in Launches : launches[l].pc = "new"
    /\ destroys[1].pc = "done"
    /\ destroys[1].ops = <<>>
    /\ options = Null

\* C9: destroy() on a launched orchestrator calls drain, then clear, then
\* browser.close, in this order; when it closes the browser, the drained pool has
\* no borrow request waiting and no page out, and the cleared pool has no page
\* still being destroyed; the fields are reset and null is returned only after
\* the close.
C9_Order ==
    /\ [](\A d \in Destroys :
            /\ destroys[d].ops \in {<<>>, <<"drain">>, <<"drain", "clear">>,
                                    <<"drain", "clear", "close">>, <<"close">>}
            /\ (destroys[d].pc = "done" /\ destroys[d].ops # <<>>) =>
                  /\ destroys[d].returned = "null"
                  /\ IF destroys[d].closed = Null THEN TRUE
                     ELSE browsers[destroys[d].closed] = "closed")
    /\ [][\A d \in Destroys :
            /\ (destroys'[d].ops # destroys[d].ops /\ destroys[d].ops # <<>>
                  /\ destroys'[d].ops[Len(destroys'[d].ops)] = "close") =>
                  /\ destroys[d].ops = <<"drain", "clear">>
                  /\ DrainComplete(destroys[d].dpool)
                  /\ ClearComplete(destroys[d].cpool)
            /\ (destroys[d].ops # <<>> /\ destroys[d].pc # "done"
                  /\ destroys'[d].pc = "done") =>
                  /\ browser' = Null /\ options' = Null /\ pool' = Null
                  /\ destroys'[d].returned = "null"
                  /\ destroys[d].pc \in {"clearing", "closing"}
                  /\ destroys[d].pc = "clearing" => ~Truthy(browser)]_vars

\* a destroy went through drain, clear and close while pages had to be destroyed
C9_Witness ==
    \E d \in Destroys :
        /\ destroys[d].pc = "done"
        /\ destroys[d].ops = <<"drain", "clear", "close">>
        /\ \E p \in Pages : pages[p].st = "destroyed"

\* C10: after one launch(), any number of process calls and a destroy() that
\* found the launched orchestrator and has completed, no page is open and the
\* browser is closed.
OneLaunch == \A l \in Launches : l > 1 => launches[l].pc = "new"

C10_AllClosed ==
    \A d \in Destroys :
        (OneLaunch /\ destroys[d].pc = "done" /\ destroys[d].ops # <<>>) =>
            /\ \A p \in Pages : ~pages[p].open
            /\ \A b \in BrowserIds : browsers[b] # "open"

\* destroy completed after pages had been created, used and closed
C10_Witness ==
    /\ OneLaunch
    /\ \E d \in Destroys : destroys[d].pc = "done" /\ destroys[d].ops # <<>>
    /\ \E c \in Calls : calls[c].pc = "done" /\ calls[c].had # Null
    /\ Cardinality({p \in Pages : pages[p].st = "destroyed"}) >= 2

\* C11: while a page of a pool is on loan to a process handler, a destroy() that
\* drains this pool has called neither clear nor browser.close: it is still
\* waiting in drain and the page on loan has not been destroyed (it is open);
\* on an orchestrator launched once, the browser the page was minted from is
\* open as well.
C11_TeardownWaits ==
    \A d \in Destroys : \A p \in Pages :
        (destroys[d].dpool # Null /\ pages[p].pool = destroys[d].dpool
            /\ pages[p].st = "borrowed") =>
            /\ destroys[d].ops = <<"drain">>
            /\ destroys[d].closed = Null
            /\ pages[p].open
            /\ OneLaunch => browsers[pages[p].via] = "open"

\* destroy waits in drain for a handler, after another handler's page came back
\* and was destroyed
C11_Witness ==
    \E d \in Destroys : \E c1, c2 \in Calls :
        /\ destroys[d].pc = "draining"
        /\ calls[c1].pc = "running" /\ calls[c1].pool = destroys[d].dpool
        /\ calls[c2].pc = "done" /\ calls[c2].had # Null
        /\ calls[c2].pool = destroys[d].dpool
        /\ pages[calls[c2].had].st = "destroyed"

\* C12: a process call issued while this.pool is a pool that a destroy() has begun
\* to drain completes in the same step: it gets no page, its handler is not
\* invoked, nothing is enqueued or created, it emits exactly one diagnostic and it
\* does not raise. On an orchestrator launched once, every process call issued
\* after a destroy() began to drain ends without a page and with one diagnostic.
DrainBegun == \E d \in Destroys : destroys[d].ops # <<>> /\ destroys[d].ops[1] = "drain"

C12_RefusedWhileDraining ==
    [][\A c \in Calls :
         /\ (Issues(c) /\ Truthy(pool) /\ pools[pool].draining) =>
               /\ calls'[c].pc = "done"
               /\ calls'[c].page = Null /\ calls'[c].had = Null
               /\ calls'[c].diags = IF calls'[c].handler = "function"
                                    THEN <<"process error">>
                                    ELSE <<"handler is not a function">>
               /\ UNCHANGED <<pools, pages>>
         /\ (Issues(c) /\ OneLaunch /\ DrainBegun) =>
               /\ calls'[c].pc = "done"
               /\ calls'[c].had = Null
               /\ Len(calls'[c].diags) = 1]_vars

\* a process call was refused while destroy was still waiting for a handler
C12_Witness ==
    \E d \in Destroys : \E c1, c2 \in Calls :
        /\ destroys[d].pc = "draining"
        /\ calls[c1].pc = "running" /\ calls[c1].pool = destroys[d].dpool
        /\ calls[c2].pc = "done" /\ calls[c2].pool = destroys[d].dpool
        /\ calls[c2].handler = "function"
        /\ calls[c2].had = Null /\ calls[c2].diags = <<"process error">>

\* C13: neither process nor destroy ever raises to its caller: no process call
\* and no destroy call ends by raising, whatever fails.
C13_NeverRaises ==
    /\ \A c \in Calls : calls[c].pc # "raised"
    /\ \A d \in Destroys : destroys[d].pc # "raised"

\* C14: when the onPageCreated hook throws or rejects, factory create does not
\* raise and returns the page it minted; the hook was invoked once, and the
\* diagnostics are exactly 'page is created' followed by the one hook error.
C14_CreateHookIsolated ==
    (frun.op = "create" /\ frun.hook = "throw") =>
        /\ ~frun.raised
        /\ frun.page /\ frun.open
        /\ Count(frun.events, Call("onPageCreated")) = 1
        /\ DiagsOf(frun.events) = <<Debug("page is created"),
                                    Debug("onPageCreated error")>>

\* create has returned a page although its hook threw
C14_Witness ==
    /\ frun.op = "create" /\ frun.hook = "throw"
    /\ frun.minted /\ frun.page
    /\ config.onPageCreated

\* C15: when browser.newPage() rejects, factory create does not raise: it returns
\* no page, emits exactly one diagnostic, 'create page error', and no 'page is
\* created', and does not invoke the onPageCreated hook.
C15_MintFailureAbsent ==
    (frun.op = "create" /\ ~frun.minted /\ ~OptionsMissing /\ ~BrowserMissing) =>
        /\ ~frun.raised
        /\ ~frun.page
        /\ DiagsOf(frun.events) = <<Debug("create page error")>>
        /\ Count(frun.events, Call("newPage")) = 1
        /\ Count(frun.events, Call("onPageCreated")) = 0

\* newPage was rejected on a launched orchestrator that has an onPageCreated hook
C15_Witness ==
    /\ frun.op = "create" /\ ~frun.minted /\ ~frun.raised
    /\ ~OptionsMissing /\ ~BrowserMissing
    /\ config.onPageCreated
    /\ Len(frun.events) = 2

\* C16: a failed mint is a creation failure for the pool. No page that is idle,
\* under validation or on loan, and no page a running handler holds, is an
\* absent result: each is an open page minted from a browser. When a creation
\* fails, its slot is empty again, no process call is handed anything, the
\* queue of waiting borrow requests is kept, and if a request waits the pool can
\* start a creation (or take an idle page) for it again.
C16_MintFailureIsCreationFailure ==
    /\ [](/\ \A p \in Pages :
               pages[p].st \in {"idle", "validating", "borrowed"} =>
                   (pages[p].open /\ pages[p].via # Null)
          /\ \A c \in Calls :
               calls[c].pc = "running" =>
                   (calls[c].page \in Pages /\ pages[calls[c].page].open))
    /\ [][\A p \in Pages :
            (pages[p].st = "creating" /\ pages'[p].st # "creating"
                /\ ~pages'[p].open) =>
                /\ pages'[p] = NoPage
                /\ calls' = calls
                /\ pools' = pools
                /\ (pools[pages[p].pool].waitq # <<>>) =>
                      Dispense(pages', pages[p].pool,
                               Len(pools[pages[p].pool].waitq)) # pages']_vars

\* a creation has failed: a borrow request waits, none of the pool's pages is
\* in preparation although there is room, and an earlier call was served
C16_Witness ==
    \E k \in PoolIds : \E c \in Calls :
        /\ pools[k].made /\ ~pools[k].draining
        /\ pools[k].waitq # <<>>
        /\ InPrep(pages, k) = {}
        /\ Cardinality(LiveOf(pages, k)) < PoolMax
        /\ Absent(pages) # {}
        /\ calls[c].pc = "running" /\ calls[c].pool = k

\* the place of the first event e in a factory call's events, 0 when it is not there
Place(events, e) ==
    IF \E i \in 1..Len(events) : events[i] = e
    THEN CHOOSE i \in 1..Len(events) :
            events[i] = e /\ \A j \in 1..(i - 1) : events[j] # e
    ELSE 0

\* C17: factory destroy, on an orchestrator that has its options: with no page it
\* makes no call and emits no diagnostic; with a page it asks isClosed once, calls
\* close once when the page is open and not at all when it is closed, and in both
\* cases emits 'page is destroyed' exactly once, as its last step, and does not
\* raise.
C17_DestroyByPageState ==
    (frun.op = "destroy" /\ ~OptionsMissing) =>
        /\ ~frun.raised
        /\ ~frun.present => frun.events = <<>>
        /\ frun.present =>
              /\ Count(frun.events, Call("isClosed")) = 1
              /\ Count(frun.events, Call("close")) = (IF frun.wasOpen THEN 1 ELSE 0)
              /\ Count(frun.events, Debug("page is destroyed")) = 1
              /\ frun.events[Len(frun.events)] = Debug("page is destroyed")
              /\ ~frun.open

\* destroy was called with a page that was already closed
C17_Witness ==
    /\ frun.op = "destroy" /\ ~OptionsMissing
    /\ frun.present /\ ~frun.wasOpen
    /\ Count(frun.events, Debug("page is destroyed")) = 1

\* C18: factory destroy with a page and a destroy hook configured invokes the
\* hook exactly once, first, before isClosed and close; when the hook throws or
\* rejects, destroy does not raise, reports the hook error exactly once, still
\* closes the open page and reports it destroyed.
C18_DestroyHookFirst ==
    (frun.op = "destroy" /\ frun.hook # "none") =>
        /\ Count(frun.events, Call(DestroyHook)) = 1
        /\ frun.events[1] = Call(DestroyHook)
        /\ Place(frun.events, Call(DestroyHook)) < Place(frun.events, Call("isClosed"))
        /\ frun.wasOpen =>
              Place(frun.events, Call(DestroyHook)) < Place(frun.events, Call("close"))
        /\ frun.hook = "throw" =>
              /\ ~frun.raised
              /\ DiagsOf(frun.events) = <<Debug(DestroyHookError),
                                          Debug("page is destroyed")>>
              /\ Count(frun.events, Call("close")) = (IF frun.wasOpen THEN 1 ELSE 0)
              /\ ~frun.open

\* the destroy hook threw on an open page, which was closed all the same
C18_Witness ==
    /\ frun.op = "destroy" /\ frun.hook = "throw"
    /\ frun.wasOpen /\ ~frun.open
    /\ Count(frun.events, Call("close")) = 1

\* C19: factory validate, on an orchestrator that has its options, never raises
\* and answers: false without a page (the hook is not invoked); true with a
\* page and no onValidate hook; with a page and a hook, what the hook returned,
\* the hook being invoked once; false, with exactly one diagnostic, when the
\* hook throws or rejects.
C19_ValidateTable ==
    (frun.op = "validate" /\ ~OptionsMissing) =>
        /\ ~frun.raised
        /\ ~frun.present => (frun.response = "false" /\ frun.events = <<>>)
        /\ (frun.present /\ ~config.onValidate) =>
              (frun.response = "true" /\ frun.events = <<>>)
        /\ (frun.present /\ config.onValidate) =>
              /\ Count(frun.events, Call("onValidate")) = 1
              /\ frun.hook \in HookResults
              /\ frun.hook # "throw" =>
                    /\ frun.response = frun.hook
                    /\ Count(frun.events, Debug("onValidate error")) = 0
              /\ frun.hook = "throw" =>
                    /\ frun.response = "false"
                    /\ DiagsOf(frun.events) = <<Debug("onValidate error")>>

\* the onValidate hook threw and validate answered false
C19_Witness ==
    /\ frun.op = "validate" /\ frun.hook = "throw"
    /\ frun.present /\ frun.response = "false"
    /\ ~frun.raised

\* C20: a page whose validation ends without the page being accepted (validate
\* returned false) is destroyed: from then on it is being destroyed or
\* destroyed and no process call ever holds it. At that step a fresh page, a
\* different one, starts being created in the same pool for the waiting
\* borrower, whose call is left as it is (it waits on and sees no diagnostic)
\* and whose place in the queue is kept.
C20_InvalidPageReplaced ==
    [][\A p \in Pages :
         /\ (pages[p].st \in {"destroying", "destroyed"}) =>
               /\ pages'[p].st \in {"destroying", "destroyed"}
               /\ \A c \in Calls : calls'[c].page # p
         /\ (pages[p].st = "validating"
               /\ pages'[p].st \notin {"validating", "borrowed", "idle"}) =>
               /\ pages'[p].st = "destroying"
               /\ calls' = calls
               /\ pools' = pools
               /\ pools[pages[p].pool].waitq # <<>>
               /\ \E q \in Pages \ {p} :
                     /\ pages[q].st = "absent"
                     /\ pages'[q].st = "creating"
                     /\ pages'[q].pool = pages[p].pool]_vars

\* the page the first call used was found invalid and destroyed when the second
\* call asked for a page, and the second call's handler runs on another page
C20_Witness ==
    /\ calls[1].pc = "done" /\ calls[1].had # Null
    /\ pages[calls[1].had].st = "destroyed"
    /\ ~pools[calls[1].pool].draining
    /\ calls[2].pc = "running" /\ calls[2].pool = calls[1].pool
    /\ calls[2].page # calls[1].had
    /\ \A c \in Calls : c > 2 => calls[c].pc = "new"

InQueue(k) == {pools[k].waitq[i] : i \in 1..Len(pools[k].waitq)}

C22_Fifo ==
    /\ [](\A k \in PoolIds :
            /\ InQueue(k) = {c \in Calls : calls[c].pc = "acquiring" /\ calls[c].pool = k}
            /\ Cardinality(InQueue(k)) = Len(pools[k].waitq))
    /\ [][\A k \in PoolIds :
            /\ pools'[k].waitq \in
                  {pools[k].waitq} \cup
                  (IF pools[k].waitq # <<>> THEN {Tail(pools[k].waitq)} ELSE {}) \cup
                  {Append(pools[k].waitq, c) : c \in Calls}
            /\ \A c \in Calls :
                  (calls[c].pc = "acquiring" /\ calls[c].pool = k
                      /\ calls'[c].pc = "running") =>
                      /\ c = Head(pools[k].waitq)
                      /\ pools'[k].waitq = Tail(pools[k].waitq)
            /\ \A c \in Calls :
                  (Issues(c) /\ calls'[c].pc = "acquiring" /\ calls'[c].pool = k) =>
                      pools'[k].waitq = Append(pools[k].waitq, c)]_vars

\* two requests wait in order behind a pool that is at its maximum
C22_Witness ==
    \E k \in PoolIds :
        /\ Len(pools[k].waitq) >= 2
        /\ pools[k].waitq[1] < pools[k].waitq[2]
        /\ Cardinality(LiveOf(pages, k)) = PoolMax
        /\ \E c \in Calls : calls[c].pc = "done" /\ calls[c].had # Null

\* C23: with an acquire timeout configured, a borrow request that waits too long
\* is rejected: the process call ends having reported 'process error' once, no
\* page was ever lent to it, so its handler was never invoked, and the request
\* is no longer in the wait queue, where only calls that still wait are found.
\* A process call that has ended is never taken up again.
C23_TimedOutRequest ==
    /\ [](\A k \in PoolIds : \A i \in 1..Len(pools[k].waitq) :
            calls[pools[k].waitq[i]].pc = "acquiring")
    /\ [][\A c \in Calls :
            /\ (calls[c].pc = "acquiring" /\ calls'[c].pc \notin {"acquiring", "running"}) =>
                  /\ calls'[c] = [calls[c] EXCEPT !.pc = "done", !.failed = TRUE,
                                                  !.diags = <<"process error">>]
                  /\ calls'[c].had = Null /\ calls'[c].page = Null
                  /\ \A k \in PoolIds : \A i \in 1..Len(pools'[k].waitq) :
                        pools'[k].waitq[i] # c
            /\ (calls[c].pc = "done") => (calls'[c] = calls[c])]_vars

\* both pages of the pool are out and the third call has timed out waiting
C23_Witness ==
    \E c \in Calls :
        /\ calls[c].pc = "done" /\ calls[c].failed /\ calls[c].had = Null
        /\ calls[c].handler = "function"
        /\ ~pools[calls[c].pool].draining
        /\ Cardinality(RunningOn(calls[c].pool)) = PoolMax
        /\ pools[calls[c].pool].waitq = <<>>

\* C24: every process call eventually completes. A call that waits for a page
\* of a pool whose factory can no longer create one never completes: with
\* this.options reset to null every creation fails, the pool tries again, and
\* the request stays queued. Stated as the safety property a finite run
\* refutes: no process call is ever stranded in this way.
Stranded(c) ==
    /\ calls[c].pc = "acquiring"
    /\ options = Null
    /\ \A p \in Pages :
          pages[p].pool = calls[c].pool =>
              \/ pages[p].st \in {"destroying", "destroyed"}
              \/ pages[p].st = "creating" /\ pages[p].via = Null

C24_NoCallStranded == \A c \in Calls : ~Stranded(c)

\* a stranded call stays stranded in every step: it never completes
StrandedForEver == [][\A c \in Calls : Stranded(c) => Stranded(c)']_vars

\* C26: a process call that obtains a page invokes its handler exactly once,
\* with the borrowed page first, the caller's extra arguments in their order,
\* and last this.pool as it is at that moment, which is the pool the page was
\* borrowed from as long as launch has been called once. The handler of a call
\* is invoked in the step that lends it its page and at no other time.
C26_HandlerArguments ==
    /\ [](\A c \in Calls : (calls[c].got # <<>>) <=> (calls[c].had # Null))
    /\ [][\A c \in Calls :
            /\ (calls[c].pc = "acquiring" /\ calls'[c].pc = "running") =>
                  /\ calls[c].got = <<>>
                  /\ calls'[c].got =
                        <<[k |-> "page", v |-> calls'[c].page]>> \o ExtraArgs(c)
                            \o <<[k |-> "pool", v |-> pool]>>
                  /\ pages'[calls'[c].page].st = "borrowed"
                  /\ OneLaunch => (pool = calls[c].pool)
            /\ (calls'[c].got # calls[c].got) =>
                  (calls[c].pc = "acquiring" /\ calls'[c].pc = "running")]_vars

\* the third call, which passes two extra arguments, runs its handler
C26_Witness ==
    /\ calls[NumCalls].pc = "running"
    /\ Len(calls[NumCalls].got) = NumCalls + 1
    /\ calls[NumCalls].got[1] = [k |-> "page", v |-> calls[NumCalls].page]
    /\ calls[NumCalls].got[NumCalls + 1] = [k |-> "pool", v |-> calls[NumCalls].pool]

\* C27: a launch that settles registers the two pool error listeners exactly
\* when it constructed the pool: then they are registered on that pool, which
\* is this.pool, and 'pool is created' is emitted; a launch that constructed no
\* pool registers no listener on any pool, and when createPool yielded no pool
\* it emits 'pool is not created' and leaves this.pool absent.
C27_ListenersWithPool ==
    [][\A l \in Launches :
          (launches[l].pc = "launching" /\ launches'[l].pc # "launching") =>
              /\ launches'[l].madePool =>
                    /\ pool' = l
                    /\ pools'[l].made
                    /\ pools'[l].listeners = pools[l].listeners + 2
                    /\ \A k \in PoolIds \ {l} : pools'[k].listeners = pools[k].listeners
                    /\ launches'[l].diags[Len(launches'[l].diags)] = "pool is created"
              /\ ~launches'[l].madePool =>
                    /\ \A k \in PoolIds : pools'[k].listeners = pools[k].listeners
                    /\ (launches'[l].outcome = "ok") =>
                          /\ pool' = Null
                          /\ launches'[l].diags[Len(launches'[l].diags)]
                                = "pool is not created"]_vars

\* C28: an orchestrator owns at most one open browser: every browser that
\* launch created and that is still open is the one this.browser refers to, so
\* that a later destroy closes it; none is open and unreferenced.
C28_OneOpenBrowser ==
    /\ Cardinality({b \in BrowserIds : browsers[b] = "open"}) <= 1
    /\ \A b \in BrowserIds : browsers[b] = "open" => browser = b

\* C29: the constructor yields browser = null and pool = null, and options is
\* the given value when that is an object other than null and other than an
\* array, and the empty object for every other input; it launches no browser,
\* creates no pool and starts no call.
C29_Constructor ==
    /\ [](frun.op = "constructed" =>
            /\ browser = Null
            /\ pool = Null
            /\ options = 1
            /\ frun.made = IF frun.given.kind = "object" THEN frun.given ELSE EmptyObject)
    /\ [][UNCHANGED <<browsers, pools, pages, calls, launches, destroys>>]_vars

\* an array was given and the options are the empty object
C29_Witness ==
    /\ frun.op = "constructed"
    /\ frun.given.kind = "array" /\ frun.given.n > 0
    /\ frun.made = EmptyObject

\* C30: every factory create and every factory destroy the pool has started
\* comes to its end, whatever the hooks do: no page stays in creation or in
\* destruction for ever. A creation that ends with a page, its hook failed or
\* not, serves the request at the head of the queue when one waits, and a
\* destruction always ends with the page destroyed.
C30_FactoryCompletes ==
    /\ \A p \in Pages :
          /\ (pages[p].st = "creating") ~> (pages[p].st # "creating")
          /\ (pages[p].st = "destroying") ~> (pages[p].st = "destroyed")
    /\ [][\A p \in Pages :
            /\ (pages[p].st = "creating" /\ pages'[p].st # "creating" /\ pages'[p].open) =>
                  IF pools[pages[p].pool].waitq # <<>>
                  THEN /\ pages'[p].st = "borrowed"
                       /\ calls'[Head(pools[pages[p].pool].waitq)].pc = "running"
                       /\ calls'[Head(pools[pages[p].pool].waitq)].page = p
                  ELSE pages'[p].st = "idle"
            /\ (pages[p].st = "destroying" /\ pages'[p].st # "destroying") =>
                  pages'[p].st = "destroyed"]_vars

\* with hooks configured, one page was lent after its creation, has since been
\* destroyed, and another is being created for a request that waits
C30_Witness ==
    /\ config.onPageCreated /\ config.onBeforePageDestroy
    /\ \E p, q \in Pages :
          /\ pages[p].st = "destroyed"
          /\ pages[q].st = "creating"
          /\ pools[pages[q].pool].waitq # <<>>

\* C31: factory validate always answers with a boolean: whatever the onValidate
\* hook returns, the result of validate is exactly true or exactly false.
C31_ValidateBoolean ==
    (frun.op = "validate" /\ ~OptionsMissing) => frun.response \in {"true", "false"}

\* C32: the live pages of a pool (in creation, idle, under validation or on
\* loan) never number more than the maximum. A process call that is issued
\* starts a creation only if the pool was below its maximum, and then no idle
\* page is left over; no step at all takes a pool beyond its maximum.
C32_LiveAtMostMax ==
    /\ [](\A k \in PoolIds : Cardinality(LiveOf(pages, k)) <= PoolMax)
    /\ [][\A c \in Calls : \A q \in Pages :
            (Issues(c) /\ pages[q].st = "absent" /\ pages'[q].st = "creating") =>
                /\ pages'[q].pool = calls'[c].pool
                /\ Cardinality(LiveOf(pages, pages'[q].pool)) < PoolMax
                /\ IdleOf(pages', pages'[q].pool) = {}]_vars

\* a pool is at its maximum with a page in creation, a request waits for more,
\* and a page identity is still free
C32_Witness ==
    \E k \in PoolIds :
        /\ Cardinality(LiveOf(pages, k)) = PoolMax
        /\ PagesOf(pages, k, {"creating"}) # {}
        /\ Len(pools[k].waitq) > Cardinality(InPrep(pages, k))
        /\ Absent(pages) # {}

\* C33: a page moves along absent, creating, idle, borrowed, back to idle or on
\* to destroying, destroyed, and in no other way (an idle page passes through
\* validation on its way to the next borrower; a creation that fails leaves no
\* page). Destroyed is final: a destroyed page never changes again, and the
\* page a handler runs with is on loan, never destroyed or in destruction.
Lifecycle ==
    {<<"absent", "creating">>,
     <<"creating", "absent">>, <<"creating", "idle">>, <<"creating", "borrowed">>,
     <<"idle", "validating">>, <<"idle", "destroying">>,
     <<"validating", "idle">>, <<"validating", "borrowed">>,
     <<"validating", "destroying">>,
     <<"borrowed", "idle">>, <<"borrowed", "validating">>, <<"borrowed", "destroying">>,
     <<"destroying", "destroyed">>}

C33_Lifecycle ==
    /\ [](\A c \in Calls :
            calls[c].pc = "running" =>
                (calls[c].page \in Pages /\ pages[calls[c].page].st = "borrowed"))
    /\ [][\A p \in Pages :
            /\ (pages'[p].st # pages[p].st) => (<<pages[p].st, pages'[p].st>> \in Lifecycle)
            /\ (pages[p].st = "destroyed") => (pages'[p] = pages[p])
            /\ (pages[p].st \in {"destroying", "destroyed"}) =>
                  \A c \in Calls : (calls'[c].page = p) => (calls[c].page = p)]_vars

\* a page has been lent, found invalid or given back, and destroyed, while a
\* handler runs with another page of the same pool
C33_Witness ==
    \E p, q \in Pages : \E c \in Calls :
        /\ pages[p].st = "destroyed"
        /\ pages[q].st = "borrowed" /\ pages[q].pool = pages[p].pool
        /\ calls[c].pc = "running" /\ calls[c].page = q
        /\ \E b \in Calls : calls[b].had = p

\* C34: as long as the handler of a process call is executing, its page stays
\* on loan to it: the page is not given back to the idle set, not handed to
\* another call and not destroyed, whatever else happens meanwhile. A page on
\* loan leaves that state only in the step in which its handler settles.
C34_HeldWhileRunning ==
    [][/\ \A c \in Calls :
            (calls[c].pc = "running" /\ calls'[c].pc = "running") =>
                /\ calls'[c].page = calls[c].page
                /\ pages'[calls[c].page] = pages[calls[c].page]
                /\ pages[calls[c].page].st = "borrowed"
                /\ \A b \in Calls \ {c} : calls'[b].page # calls[c].page
       /\ \A p \in Pages :
            (pages[p].st = "borrowed" /\ pages'[p].st # "borrowed") =>
                \E c \in Calls : /\ calls[c].pc = "running" /\ calls[c].page = p
                                 /\ calls'[c].pc = "done"]_vars

\* one handler has settled and its page is idle again, while the handler of
\* another call is still executing with its own page
C34_Witness ==
    \E c, b \in Calls :
        /\ calls[c].pc = "done" /\ calls[c].had # Null
        /\ pages[calls[c].had].st = "idle"
        /\ calls[b].pc = "running" /\ calls[b].page # calls[c].had
        /\ pages[calls[b].page].st = "borrowed"

\* C35: only launch and destroy change this.browser, this.options and
\* this.pool. A step of process, of a handler, or of a factory create, validate
\* or destroy the pool runs (any step that changes a process call or a page
\* without being a step of a launch or destroy call) leaves the three fields as
\* they are, also when a handler or a hook fails.
C35_OnlyLaunchAndDestroy ==
    [][/\ (orch' # orch) =>
             \/ \E l \in Launches : launches'[l] # launches[l]
             \/ \E d \in Destroys : destroys'[d] # destroys[d]
       /\ (launches' = launches /\ destroys' = destroys) => (orch' = orch)
       /\ (calls' # calls) => (orch' = orch)]_vars

\* a handler has failed, a page has been created and one destroyed by the
\* factory, and the three fields are as launch left them
C35_Witness ==
    /\ \E c \in Calls : calls[c].failed /\ calls[c].had # Null /\ pool = calls[c].pool
    /\ \E p \in Pages : pages[p].st = "destroyed"
    /\ \E p \in Pages : pages[p].st = "idle"
    /\ browser = pool /\ Truthy(browser) /\ options = 1
    /\ \A d \in Destroys : destroys[d].pc = "new"

\* C36: in every reachable state, repeated and failing launches included, a
\* present pool comes with a present browser: this.pool is truthy only while
\* this.browser is truthy, so that factory create never reads a missing browser.
C36_PoolHasBrowser == Truthy(pool) => Truthy(browser)

\* C37: once a destroy() call has completed the orchestrator stays unusable:
\* in every later state this.browser and this.pool are null, and a launch or
\* process call made after it starts no browser creation, creates no pool and
\* invokes no handler.
DestroyCompleted == \E d \in Destroys : destroys[d].pc = "done"

C37_UnusableAfterDestroy ==
    /\ [](DestroyCompleted => (browser = Null /\ pool = Null))
    /\ [][DestroyCompleted =>
            /\ \A l \in Launches :
                 launches[l].pc = "new" => launches'[l].pc \in {"new", "raised"}
            /\ \A c \in Calls :
                 calls[c].pc = "new" => (calls'[c].pc \in {"new", "done"} /\
                                         calls'[c].page = Null)]_vars

\* C38: for a launched orchestrator (one launch), under any interleaving of
\* destroy() calls, the pool is drained at most once and cleared at most once,
\* and the browser is closed at most once: no two destroy calls have called
\* drain, clear or close on the same pool or browser.
C38_DestroyOnce ==
    OneLaunch =>
        /\ \A k \in PoolIds :
             /\ Cardinality({d \in Destroys : destroys[d].dpool = k}) <= 1
             /\ Cardinality({d \in Destroys : destroys[d].cpool = k}) <= 1
        /\ \A b \in Launches :
             Cardinality({d \in Destroys : destroys[d].closed = b}) <= 1

\* C39: when launch has created the browser and pool construction yielded no
\* pool, a destroy() that starts then calls neither drain nor clear and calls
\* close once, on that browser; when it completes the browser is closed and
\* browser, options and pool are null.
C39_BrowserWithoutPool ==
    [][\A d \in Destroys :
         /\ (destroys[d].pc = "new" /\ destroys'[d].pc # "new" /\
             Truthy(browser) /\ ~Truthy(pool)) =>
                /\ destroys'[d].pc = "closing"
                /\ destroys'[d].ops = <<"close">>
                /\ destroys'[d].closed = browser
                /\ browsers[browser] = "open"
         /\ (destroys[d].ops = <<"close">> /\ destroys'[d] # destroys[d]) =>
                /\ destroys'[d].ops = <<"close">>
                /\ destroys'[d].pc \in {"done", "raised"}
                /\ destroys'[d].pc = "done" =>
                     /\ browsers'[destroys[d].closed] = "closed"
                     /\ browser' = Null /\ options' = Null /\ pool' = Null]_vars

\* a launch made a browser and no pool, and a destroy has closed that browser
\* with a single close, no drain and no clear, and reset the fields
C39_Witness ==
    \E d \in Destroys :
        /\ destroys[d].pc = "done" /\ destroys[d].ops = <<"close">>
        /\ launches[destroys[d].closed].outcome = "ok"
        /\ ~launches[destroys[d].closed].madePool
        /\ browsers[destroys[d].closed] = "closed"
        /\ browser = Null /\ options = Null /\ pool = Null
        /\ \A e \in Destroys \ {d} : destroys[e].pc = "new"

====
